---- MODULE Spec2Model ----
(***************************************************************************)
(* Model of src/bin/basic.rs: one host thread that records a command       *)
(* buffer, submits it to a queue, waits on the fence future and reads the  *)
(* results back, and the device that executes the submitted commands       *)
(* asynchronously.  The four arms of `match buffer_type` (Simple, Compute, *)
(* Image, ComputeImage) are all modelled; line 67 selects one of them.     *)
(*                                                                         *)
(* Sizes are scaled down: the buffers, the dispatch and the image keep the *)
(* arithmetic relations of the source (see the Src* constants) but not its *)
(* magnitudes.                                                             *)
(***************************************************************************)
EXTENDS Integers, Sequences, FiniteSets, TLC

\* ------------------------------------------------------------------ bounds
\* Simple: `0..64` (line 75) scaled.
SimpleLen == 3
\* Compute: `dispatch([1024, 1, 1])` (line 171) scaled.
DispatchGroups == 2
\* Compute: `local_size_x = 64` (line 123) scaled.
LocalSizeX == 2
\* Image, ComputeImage: `width: 1024, height: 1024` scaled.
ImageDim == 2
\* ComputeImage: `local_size_x = 8, local_size_y = 8` (line 258) scaled.
ImageLocal == 2
\* Fixed-point denominator standing in for the shader's float arithmetic.
FP == 1000

\* ------------------------------------------------------- program constants
SrcDispatchGroups == 1024
SrcLocalSizeX == 64
SrcDataLen == 65535
Multiplier == 12
BytesPerPixel == 4
UNormMax == 255
MaxIter == 200

PracticeType == {"Simple", "Compute", "Image", "ComputeImage"}

\* Number of elements `0..65535` falls short of the 1024 * 64 invocations.
Shortfall == SrcDispatchGroups * SrcLocalSizeX - SrcDataLen

\* Number of elements of data_buffer, keeping the source's shortfall.
DataLen == DispatchGroups * LocalSizeX - Shortfall

\* Byte length of buf: `0..1024 * 1024 * 4`.
BufLen == ImageDim * ImageDim * BytesPerPixel

Pixels == (0 .. ImageDim - 1) \X (0 .. ImageDim - 1)

\* `buf.data[idx] *= 12` on uint: the largest product of the source,
\* 65534 * 12, is far below 2^32, so the u32 product never wraps.
MulU32(a, b) == a * b

\* ---------------------------------------------------------- initial data
\* `0..64`
source_content == [i \in 1 .. SimpleLen |-> i - 1]

\* `(0..64).map(|_| 0)`
destination_content == [i \in 1 .. SimpleLen |-> 0]

\* `0..65535`
data_iter == [i \in 1 .. DataLen |-> i - 1]

\* `(0..1024 * 1024 * 4).map(|_| 0u8)`
buf_content == [i \in 1 .. BufLen |-> 0]

\* StorageImage::new leaves the image memory uninitialized: any content.
UninitPixel == {<<0, 0, 0, 0>>, <<85, 170, 85, 170>>}

\* A sample of the contents uninitialized image memory may have: one value
\* everywhere, or two values split along the diagonal.
UninitImages ==
    { [p \in Pixels |-> IF p[1] <= p[2] THEN a ELSE b] : a, b \in UninitPixel }

\* ClearValue::Float([0.0, 0.0, 1.0, 1.0]), channels in units of 1/FP.
ClearValue == <<0, 0, FP, FP>>

\* Float channel in [0,1] (units of 1/den) to R8G8B8A8_UNORM byte.
UNorm8(num, den) == (2 * num * UNormMax + den) \div (2 * den)

ClearColor == [c \in 1 .. 4 |-> UNorm8(ClearValue[c], FP)]

\* ------------------------------------------------------------ the shaders
\* gl_GlobalInvocationID component: gl_WorkGroupID * local_size + local id.
GlobalInvocationIDBad(g, l, size) == g + l
GlobalInvocationID(g, l, size) == g * size + l

\* One pass through the body of the Mandelbrot loop of the ComputeImage
\* shader (lines 268-277) in fixed point; st.k counts the `i += 0.005`
\* steps taken and st.out is TRUE once `break` was taken.
LoopBody(st, cx, cy) ==
    IF st.out THEN st
    ELSE LET nx == (st.zx * st.zx - st.zy * st.zy) \div FP + cx
             ny == (2 * st.zy * st.zx) \div FP + cy
         IN  IF nx * nx + ny * ny > 16 * FP * FP
             THEN [st EXCEPT !.out = TRUE, !.zx = nx, !.zy = ny]
             ELSE [zx |-> nx, zy |-> ny, k |-> st.k + 1, out |-> FALSE]

\* n passes through the loop body (split in halves to keep evaluation shallow).
RECURSIVE Iterate(_, _, _, _)
Iterate(st, cx, cy, n) ==
    IF n = 0 THEN st
    ELSE IF n = 1 THEN LoopBody(st, cx, cy)
    ELSE LET half == Iterate(st, cx, cy, n \div 2)
         IN  IF half.k >= 0 THEN Iterate(half, cx, cy, n - n \div 2) ELSE half

\* `to_write` of the ComputeImage shader for gl_GlobalInvocationID.xy = p.
ToWrite(p) ==
    LET cx == ((2 * p[1] + 1) * FP) \div ImageDim - 2 * FP
        cy == ((2 * p[2] + 1) * FP) \div ImageDim - FP
        i  == Iterate([zx |-> 0, zy |-> 0, k |-> 0, out |-> FALSE], cx, cy, MaxIter).k
        v  == UNorm8(i, MaxIter)
    IN  <<v, v, v, UNorm8(1, 1)>>

\* Evaluated once: the shader's output for every pixel.
Shaded == [p \in Pixels |-> ToWrite(p)]

\* local_size of the two shaders.
LocalSize(shader) ==
    IF shader = "cs_multiply" THEN <<LocalSizeX, 1>> ELSE <<ImageLocal, ImageLocal>>

\* ------------------------------------------------------- recorded commands
Cmd(op, a, b) == [op |-> op, a |-> a, b |-> b]

\* The commands each arm records into its builder, in recorded order.
RecordedReversedCopy(t) ==
    CASE t = "Simple" -> << Cmd("copy_buffer", "destination", "source") >>
      [] t = "Compute" ->
            << Cmd("bind_pipeline_compute", "cs_multiply", ""),
               Cmd("bind_descriptor_sets", "data_buffer", ""),
               Cmd("dispatch", <<DispatchGroups, 1>>, "") >>
      [] t = "Image" ->
            << Cmd("clear_color_image", "image", ClearColor),
               Cmd("copy_image_to_buffer", "image", "buf") >>
      [] t = "ComputeImage" ->
            << Cmd("bind_pipeline_compute", "cs_mandelbrot", ""),
               Cmd("bind_descriptor_sets", "image", ""),
               Cmd("dispatch", <<ImageDim \div ImageLocal, ImageDim \div ImageLocal>>, ""),
               Cmd("copy_image_to_buffer", "image", "buf") >>
RecordedCopyFirst(t) ==
    CASE t = "Simple" -> << Cmd("copy_buffer", "source", "destination") >>
      [] t = "Compute" ->
            << Cmd("bind_pipeline_compute", "cs_multiply", ""),
               Cmd("bind_descriptor_sets", "data_buffer", ""),
               Cmd("dispatch", <<DispatchGroups, 1>>, "") >>
      [] t = "Image" ->
            << Cmd("copy_image_to_buffer", "image", "buf"),
               Cmd("clear_color_image", "image", ClearColor) >>
      [] t = "ComputeImage" ->
            << Cmd("bind_pipeline_compute", "cs_mandelbrot", ""),
               Cmd("bind_descriptor_sets", "image", ""),
               Cmd("dispatch", <<ImageDim \div ImageLocal, ImageDim \div ImageLocal>>, ""),
               Cmd("copy_image_to_buffer", "image", "buf") >>
Recorded(t) ==
    CASE t = "Simple" -> << Cmd("copy_buffer", "source", "destination") >>
      [] t = "Compute" ->
            << Cmd("bind_pipeline_compute", "cs_multiply", ""),
               Cmd("bind_descriptor_sets", "data_buffer", ""),
               Cmd("dispatch", <<DispatchGroups, 1>>, "") >>
      [] t = "Image" ->
            << Cmd("clear_color_image", "image", ClearColor),
               Cmd("copy_image_to_buffer", "image", "buf") >>
      [] t = "ComputeImage" ->
            << Cmd("bind_pipeline_compute", "cs_mandelbrot", ""),
               Cmd("bind_descriptor_sets", "image", ""),
               Cmd("dispatch", <<ImageDim \div ImageLocal, ImageDim \div ImageLocal>>, ""),
               Cmd("copy_image_to_buffer", "image", "buf") >>

\* --------------------------------------------------------------- the state
VARIABLES
    buffer_type,     \* the arm of `match buffer_type` that runs
    pc,              \* the host thread's next statement
    mem,             \* contents of the buffers and the image, by name
    builder,         \* commands recorded so far in the AutoCommandBufferBuilder
    command_buffer,  \* the built command buffer, <<>> before build and once moved
    usage,           \* CommandBufferUsage the builder was created with
    exec_future,     \* commands held by the future then_execute returned
    queue,           \* commands submitted to the device queue by the flush
    submits,         \* number of queue submissions made
    future,          \* the fence future: "Idle", "Submitted" or "Signaled"
    submit_result,   \* result of then_signal_fence_and_flush
    wait_result,     \* result of future.wait(None)
    fence,           \* TRUE once the device has signalled the fence
    device_lost,     \* TRUE once the device has faulted
    cmd_idx,         \* index in the queue of the command the device executes
    done_units,      \* work items of that command already executed
    bound,           \* compute pipeline and descriptor set bound on the device
    invoked,         \* per buffer index, number of multiply invocations run
    stray,           \* indices past the end of data_buffer that were written
    read_view,       \* what the host read back, by name
    saved,           \* pixels written to image.png, <<>> before
    at_submit        \* contents of the resources when the flush submitted

vars == << buffer_type, pc, mem, builder, command_buffer, usage, exec_future,
           queue, submits, future, submit_result, wait_result, fence,
           device_lost, cmd_idx, done_units, bound, invoked, stray,
           read_view, saved, at_submit >>

hostVars == << pc, builder, command_buffer, usage, exec_future, submits,
               future, submit_result, wait_result, read_view, saved,
               at_submit >>

\* Resources each arm creates before recording.
Resources(t, img) ==
    CASE t = "Simple" ->
            [n \in {"source", "destination"} |->
                IF n = "source" THEN source_content ELSE destination_content]
      [] t = "Compute" -> [n \in {"data_buffer"} |-> data_iter]
      [] OTHER -> [n \in {"image", "buf"} |-> IF n = "image" THEN img ELSE buf_content]

\* Buffers each arm maps with read() after the wait.
ReadSet(t) ==
    CASE t = "Simple" -> {"source", "destination"}
      [] t = "Compute" -> {"data_buffer"}
      [] OTHER -> {"buf"}

Init ==
    /\ buffer_type \in PracticeType
    /\ \E img \in UninitImages : mem = Resources(buffer_type, img)
    /\ pc = "record"
    /\ builder = <<>>
    /\ command_buffer = <<>>
    /\ usage = "OneTimeSubmit"
    /\ exec_future = <<>>
    /\ queue = <<>>
    /\ submits = 0
    /\ future = "Idle"
    /\ submit_result = "none"
    /\ wait_result = "none"
    /\ fence = FALSE
    /\ device_lost = FALSE
    /\ cmd_idx = 1
    /\ done_units = {}
    /\ bound = [pipeline |-> "", set |-> ""]
    /\ invoked = [i \in 0 .. DispatchGroups * LocalSizeX - 1 |-> 0]
    /\ stray = {}
    /\ read_view = <<>>
    /\ saved = <<>>
    /\ at_submit = <<>>

\* ---------------------------------------------------------- the host thread
\* Statement order of every arm: the statement that follows p.
AfterSkipWait(p) ==
    CASE p = "record" -> "build"
      [] p = "build" -> "then_execute"
      [] p = "then_execute" -> "then_signal_fence_and_flush"
      [] p = "then_signal_fence_and_flush" -> "read"
      [] p = "wait" -> "read"
      [] p = "read" -> "check"
      [] p = "check" -> "done"
AfterResubmit(p) ==
    CASE p = "record" -> "build"
      [] p = "build" -> "then_execute"
      [] p = "then_execute" -> "then_signal_fence_and_flush"
      [] p = "then_signal_fence_and_flush" -> "wait"
      [] p = "wait" -> "then_signal_fence_and_flush"
      [] p = "read" -> "check"
      [] p = "check" -> "done"
After(p) ==
    CASE p = "record" -> "build"
      [] p = "build" -> "then_execute"
      [] p = "then_execute" -> "then_signal_fence_and_flush"
      [] p = "then_signal_fence_and_flush" -> "wait"
      [] p = "wait" -> "read"
      [] p = "read" -> "check"
      [] p = "check" -> "done"

\* builder.copy_buffer(..) / .bind_pipeline_compute(..) / .dispatch(..) / ...
Record ==
    /\ pc = "record"
    /\ Len(builder) < Len(Recorded(buffer_type))
    /\ builder' = Append(builder, Recorded(buffer_type)[Len(builder) + 1])
    /\ pc' = IF Len(builder') = Len(Recorded(buffer_type)) THEN After(pc) ELSE pc
    /\ UNCHANGED << buffer_type, mem, command_buffer, usage, exec_future, queue,
                    submits, future, submit_result, wait_result, fence,
                    device_lost, cmd_idx, done_units, bound, invoked, stray,
                    read_view, saved, at_submit >>

\* let command_buffer = builder.build().unwrap();
Build ==
    /\ pc = "build"
    /\ command_buffer' = builder
    /\ builder' = <<>>
    /\ pc' = After(pc)
    /\ UNCHANGED << buffer_type, mem, usage, exec_future, queue, submits, future,
                    submit_result, wait_result, fence, device_lost, cmd_idx,
                    done_units, bound, invoked, stray, read_view, saved, at_submit >>

\* sync::now(device).then_execute(queue, command_buffer).unwrap(): the command
\* buffer is moved into the future; nothing reaches the device yet.
ThenExecute ==
    /\ pc = "then_execute"
    /\ exec_future' = command_buffer
    /\ command_buffer' = <<>>
    /\ pc' = After(pc)
    /\ UNCHANGED << buffer_type, mem, builder, usage, queue, submits, future,
                    submit_result, wait_result, fence, device_lost, cmd_idx,
                    done_units, bound, invoked, stray, read_view, saved, at_submit >>

\* .then_signal_fence_and_flush().unwrap(): submits to the queue and returns.
ThenSignalFenceAndFlush ==
    /\ pc = "then_signal_fence_and_flush"
    /\ IF device_lost
       THEN /\ submit_result' = "DeviceLost"
            /\ pc' = "panic"
            /\ UNCHANGED << queue, exec_future, submits, future, at_submit >>
       ELSE /\ submit_result' = "Ok"
            /\ at_submit' = mem
            /\ queue' = exec_future
            /\ exec_future' = <<>>
            /\ submits' = submits + 1
            /\ future' = "Submitted"
            /\ pc' = After(pc)
    /\ UNCHANGED << buffer_type, mem, builder, command_buffer, usage, wait_result,
                    fence, device_lost, cmd_idx, done_units, bound, invoked,
                    stray, read_view, saved >>

\* future.wait(None).unwrap(): blocks until the fence is signalled or the
\* device is lost; an Err panics.
Wait ==
    /\ pc = "wait"
    /\ \/ /\ fence
          /\ wait_result' = "Ok"
          /\ future' = "Signaled"
          /\ pc' = After(pc)
       \/ /\ ~fence
          /\ device_lost
          /\ wait_result' = "DeviceLost"
          /\ future' = future
          /\ pc' = "panic"
    /\ UNCHANGED << buffer_type, mem, builder, command_buffer, usage, exec_future,
                    queue, submits, submit_result, fence, device_lost, cmd_idx,
                    done_units, bound, invoked, stray, read_view, saved, at_submit >>

\* source.read().unwrap(), destination.read().unwrap(), buf.read().unwrap()
Read ==
    /\ pc = "read"
    /\ read_view' = [n \in ReadSet(buffer_type) |-> mem[n]]
    /\ pc' = After(pc)
    /\ UNCHANGED << buffer_type, mem, builder, command_buffer, usage, exec_future,
                    queue, submits, future, submit_result, wait_result, fence,
                    device_lost, cmd_idx, done_units, bound, invoked, stray, saved, at_submit >>

\* ImageBuffer::<Rgba<u8>, _>::from_raw(1024, 1024, bytes): groups the bytes
\* four by four into the pixels of rows of ImageDim pixels.
FromRaw(bytes) ==
    [p \in Pixels |->
        [c \in 1 .. BytesPerPixel |-> bytes[BytesPerPixel * (p[2] * ImageDim + p[1]) + c]]]

\* The assertions of Simple and Compute.
AssertHolds ==
    CASE buffer_type = "Simple" -> read_view["source"] = read_view["destination"]
      [] buffer_type = "Compute" ->
            \A n \in 1 .. Len(read_view["data_buffer"]) :
                read_view["data_buffer"][n] = MulU32(n - 1, Multiplier)
      [] OTHER -> Len(read_view["buf"]) >= BufLen

\* assert_eq!(..) / from_raw(..).unwrap() followed by save("image.png")
Check ==
    /\ pc = "check"
    /\ IF AssertHolds
       THEN /\ pc' = After(pc)
            /\ saved' = IF buffer_type \in {"Image", "ComputeImage"}
                        THEN FromRaw(read_view["buf"]) ELSE saved
       ELSE /\ pc' = "panic"
            /\ saved' = saved
    /\ UNCHANGED << buffer_type, mem, builder, command_buffer, usage, exec_future,
                    queue, submits, future, submit_result, wait_result, fence,
                    device_lost, cmd_idx, done_units, bound, invoked, stray,
                    read_view, at_submit >>

\* --------------------------------------------------------------- the device
\* The commands the device may execute: those a flush has submitted.
DeviceWorkEager == IF queue # <<>> THEN queue ELSE exec_future
DeviceWork == queue

Running == DeviceWork # <<>> /\ ~device_lost /\ ~fence /\ cmd_idx <= Len(DeviceWork)

CurCmd == DeviceWork[cmd_idx]

\* Work items of a command: buffer elements, pixels, or shader invocations
\* <<group x, group y, local x, local y>>.
Units(cmd) ==
    CASE cmd.op = "copy_buffer" -> 1 .. Len(mem[cmd.a])
      [] cmd.op \in {"clear_color_image", "copy_image_to_buffer"} -> Pixels
      [] cmd.op = "dispatch" ->
            (0 .. cmd.a[1] - 1) \X (0 .. cmd.a[2] - 1)
                \X (0 .. LocalSize(bound.pipeline)[1] - 1)
                \X (0 .. LocalSize(bound.pipeline)[2] - 1)
      [] OTHER -> {0}

deviceVars == << fence, device_lost, cmd_idx, bound, invoked, stray >>

\* copy_buffer(source, destination), one element
ExecCopyBuffer ==
    /\ Running
    /\ CurCmd.op = "copy_buffer"
    /\ \E i \in Units(CurCmd) \ done_units :
        /\ mem' = [mem EXCEPT ![CurCmd.b][i] = mem[CurCmd.a][i]]
        /\ done_units' = done_units \cup {i}
    /\ UNCHANGED << buffer_type, queue, hostVars, deviceVars >>

\* bind_pipeline_compute(..) and bind_descriptor_sets(..)
ExecBind ==
    /\ Running
    /\ CurCmd.op \in {"bind_pipeline_compute", "bind_descriptor_sets"}
    /\ done_units = {}
    /\ bound' = IF CurCmd.op = "bind_pipeline_compute"
                THEN [bound EXCEPT !.pipeline = CurCmd.a]
                ELSE [bound EXCEPT !.set = CurCmd.a]
    /\ done_units' = {0}
    /\ UNCHANGED << buffer_type, mem, queue, hostVars, fence, device_lost,
                    cmd_idx, invoked, stray >>

\* gl_GlobalInvocationID.x of the invocation u of the multiply shader.
Idx(u) == GlobalInvocationID(u[1], u[3], LocalSize("cs_multiply")[1])

\* `buf.data[idx] *= 12` with idx inside the buffer
ExecMultiply ==
    /\ Running
    /\ CurCmd.op = "dispatch"
    /\ bound.pipeline = "cs_multiply"
    /\ \E u \in Units(CurCmd) \ done_units :
        /\ Idx(u) < Len(mem[bound.set])
        /\ mem' = [mem EXCEPT ![bound.set][Idx(u) + 1] = MulU32(@, Multiplier)]
        /\ invoked' = [invoked EXCEPT ![Idx(u)] = @ + 1]
        /\ done_units' = done_units \cup {u}
    /\ UNCHANGED << buffer_type, queue, hostVars, fence, device_lost, cmd_idx,
                    bound, stray >>

\* `buf.data[idx] *= 12` with idx past the end of the buffer: the device was
\* created with Features::none(), so the access is undefined: it is dropped,
\* lands in memory outside the buffer, or faults the device.
ExecMultiplyOutOfBounds ==
    /\ Running
    /\ CurCmd.op = "dispatch"
    /\ bound.pipeline = "cs_multiply"
    /\ \E u \in Units(CurCmd) \ done_units :
        /\ Idx(u) >= Len(mem[bound.set])
        /\ invoked' = [invoked EXCEPT ![Idx(u)] = @ + 1]
        /\ done_units' = done_units \cup {u}
        /\ \/ UNCHANGED << stray, device_lost >>
           \/ stray' = stray \cup {Idx(u)} /\ UNCHANGED device_lost
           \/ device_lost' = TRUE /\ UNCHANGED stray
    /\ UNCHANGED << buffer_type, mem, queue, hostVars, fence, cmd_idx, bound >>

\* gl_GlobalInvocationID.xy of the invocation u of the Mandelbrot shader.
Coord(u) ==
    << GlobalInvocationID(u[1], u[3], LocalSize("cs_mandelbrot")[1]),
       GlobalInvocationID(u[2], u[4], LocalSize("cs_mandelbrot")[2]) >>

\* imageStore(img, ivec2(gl_GlobalInvocationID.xy), to_write)
ExecMandelbrot ==
    /\ Running
    /\ CurCmd.op = "dispatch"
    /\ bound.pipeline = "cs_mandelbrot"
    /\ \E u \in Units(CurCmd) \ done_units :
        /\ mem' = IF Coord(u) \in Pixels
                  THEN [mem EXCEPT ![bound.set][Coord(u)] = Shaded[Coord(u)]]
                  ELSE mem
        /\ done_units' = done_units \cup {u}
    /\ UNCHANGED << buffer_type, queue, hostVars, deviceVars >>

\* clear_color_image(image, ClearValue::Float([0.0, 0.0, 1.0, 1.0])), one pixel
ExecClear ==
    /\ Running
    /\ CurCmd.op = "clear_color_image"
    /\ \E p \in Units(CurCmd) \ done_units :
        /\ mem' = [mem EXCEPT ![CurCmd.a][p] = CurCmd.b]
        /\ done_units' = done_units \cup {p}
    /\ UNCHANGED << buffer_type, queue, hostVars, deviceVars >>

\* The bytes of buf with pixel p of the image copied in, rows tightly packed.
StorePixel(bytes, p, px) ==
    [i \in 1 .. Len(bytes) |->
        LET off == BytesPerPixel * (p[2] * ImageDim + p[1])
        IN  IF i > off /\ i <= off + BytesPerPixel THEN px[i - off] ELSE bytes[i]]

\* copy_image_to_buffer(image, buf), one pixel
ExecCopyImage ==
    /\ Running
    /\ CurCmd.op = "copy_image_to_buffer"
    /\ \E p \in Units(CurCmd) \ done_units :
        /\ mem' = [mem EXCEPT ![CurCmd.b] = StorePixel(@, p, mem[CurCmd.a][p])]
        /\ done_units' = done_units \cup {p}
    /\ UNCHANGED << buffer_type, queue, hostVars, deviceVars >>

\* The builder's automatic barrier: a command starts once the one recorded
\* before it has finished.
CommandComplete ==
    /\ Running
    /\ done_units = Units(CurCmd)
    /\ cmd_idx' = cmd_idx + 1
    /\ done_units' = {}
    /\ UNCHANGED << buffer_type, mem, queue, hostVars, fence, device_lost, bound,
                    invoked, stray >>

\* The fence of then_signal_fence is signalled after the last command.
SignalFence ==
    /\ DeviceWork # <<>>
    /\ ~device_lost
    /\ ~fence
    /\ cmd_idx > Len(DeviceWork)
    /\ fence' = TRUE
    /\ UNCHANGED << buffer_type, mem, queue, hostVars, device_lost, cmd_idx,
                    done_units, bound, invoked, stray >>

Next ==
    \/ Record
    \/ Build
    \/ ThenExecute
    \/ ThenSignalFenceAndFlush
    \/ Wait
    \/ Read
    \/ Check
    \/ ExecCopyBuffer
    \/ ExecBind
    \/ ExecMultiply
    \/ ExecMultiplyOutOfBounds
    \/ ExecMandelbrot
    \/ ExecClear
    \/ ExecCopyImage
    \/ CommandComplete
    \/ SignalFence

Spec == Init /\ [][Next]_vars

\* ------------------------------------------------------------- properties
WaitedOk == wait_result = "Ok"

\* C1: in the Simple arm, once submit and wait(None) have returned Ok, every
\* element of destination equals the element of source at the same index as
\* source was when the flush submitted the copy.
C1_DestinationEqualsSource ==
    (buffer_type = "Simple" /\ WaitedOk) =>
        /\ Len(mem["destination"]) = Len(at_submit["source"])
        /\ \A i \in 1 .. SimpleLen :
              mem["destination"][i] = at_submit["source"][i]
        /\ at_submit["source"] = source_content

C1_Witness ==
    /\ buffer_type = "Simple"
    /\ WaitedOk
    /\ read_view # <<>>
    /\ mem["destination"] # destination_content

\* C2: in the Compute arm, once wait(None) has returned Ok, element i of the
\* data buffer holds input[i] * 12 for every i in [0, N), and exactly one
\* invocation has multiplied it.
C2_EveryElementTimesTwelveOnce ==
    (buffer_type = "Compute" /\ WaitedOk) =>
        \A i \in 0 .. DataLen - 1 :
            /\ mem["data_buffer"][i + 1] = at_submit["data_buffer"][i + 1] * 12
            /\ at_submit["data_buffer"][i + 1] = i
            /\ invoked[i] = 1

C2_Witness ==
    /\ buffer_type = "Compute"
    /\ WaitedOk
    /\ pc = "done"
    /\ mem["data_buffer"][DataLen] = (DataLen - 1) * 12

\* The pixel of a byte buffer at p, as four bytes.
PixelOf(bytes, p) == FromRaw(bytes)[p]

\* C4: the device executes the commands of one command buffer in recorded
\* order: in the Image arm the copy to buf starts only when the clear has
\* written every pixel, so buf never receives a pixel other than the clear
\* colour (0, 0, 255, 255), and after wait(None) returned Ok every pixel of
\* buf, and of what the host reads from it, is that colour; in the
\* ComputeImage arm the copy likewise starts only after the dispatch.
C4_RecordedOrder ==
    /\ buffer_type = "Image" =>
        /\ (queue # <<>> /\ cmd_idx >= 2) =>
              \A p \in Pixels : mem["image"][p] = <<0, 0, 255, 255>>
        /\ \A p \in Pixels :
              PixelOf(mem["buf"], p) \in {<<0, 0, 0, 0>>, <<0, 0, 255, 255>>}
        /\ WaitedOk =>
              \A p \in Pixels : PixelOf(mem["buf"], p) = <<0, 0, 255, 255>>
        /\ read_view # <<>> =>
              \A p \in Pixels : PixelOf(read_view["buf"], p) = <<0, 0, 255, 255>>
    /\ buffer_type = "ComputeImage" =>
        /\ (queue # <<>> /\ cmd_idx >= 4) => mem["image"] = Shaded
        /\ WaitedOk => FromRaw(mem["buf"]) = Shaded

C4_Witness ==
    /\ buffer_type = "Image"
    /\ WaitedOk
    /\ \E p \in Pixels : at_submit["image"][p] = <<85, 170, 85, 170>>
    /\ saved # <<>>
    /\ \A p \in Pixels : saved[p] = <<0, 0, 255, 255>>

\* C5: in every arm the host maps a buffer for reading, checks it and saves
\* the image only after wait on the future of the submitted command buffer
\* has returned Ok: no read happens while the future is still Submitted.
C5_ReadOnlyAfterWait ==
    (read_view # <<>> \/ saved # <<>> \/ pc \in {"check", "done"}) =>
        /\ WaitedOk
        /\ future = "Signaled"
        /\ fence
        /\ cmd_idx > Len(queue)

C5_Witness ==
    /\ buffer_type = "ComputeImage"
    /\ read_view # <<>>
    /\ saved = Shaded
    /\ future = "Signaled"

\* C6: every built command buffer is submitted exactly once: it is built
\* with OneTimeSubmit, one flush hands it to the queue, and no execution
\* submits a second time.
C6_SubmittedExactlyOnce ==
    /\ usage = "OneTimeSubmit"
    /\ submits <= 1
    /\ (submits = 1) <=> (queue # <<>>)
    /\ queue # <<>> => (queue = Recorded(buffer_type) /\ command_buffer = <<>>
                          /\ exec_future = <<>>)
    /\ pc \in {"wait", "read", "check", "done"} => submits = 1

C6_Witness ==
    /\ pc = "done"
    /\ submits = 1
    /\ queue = Recorded(buffer_type)

\* C9: a device fault during execution is never reported by the submit,
\* which has returned Ok with the future Submitted before the fault can
\* happen; the host learns of it only from wait, as DeviceLost.
C9_FaultOnlyAtWait ==
    /\ submit_result \in {"none", "Ok"}
    /\ device_lost => (submit_result = "Ok" /\ future = "Submitted")
    /\ (device_lost /\ pc = "panic") => wait_result = "DeviceLost"
    /\ wait_result = "DeviceLost" => (device_lost /\ pc = "panic")

C9_Witness ==
    /\ device_lost
    /\ submit_result = "Ok"
    /\ wait_result = "DeviceLost"
    /\ pc = "panic"

\* C10: in the Compute arm every invocation that runs accesses an index
\* inside the data buffer: the dispatch runs no more invocations than the
\* buffer has elements.
C10_InvocationsInBounds ==
    buffer_type = "Compute" =>
        \A idx \in DOMAIN invoked : invoked[idx] > 0 => idx < DataLen

====
